---- MODULE Spec2Model ----
(***************************************************************************)
(* Model of src/json_validator.py: JsonValidator.validate_schema and its   *)
(* five rule checkers.  Two specifications:                                *)
(*   Spec      one call of validate_schema(json_file, schema_file), from   *)
(*             opening the two files to the returned boolean;              *)
(*   UnitSpec  one direct call of one of the five static checker methods   *)
(*             on an already parsed (json_data, schema) pair.              *)
(***************************************************************************)
EXTENDS Integers, Sequences, FiniteSets, TLC

VARIABLES
    jfile,      \* the file at json_file: [status, data]
    sfile,      \* the file at schema_file: [status, data]
    json_data,  \* local json_data (parsed document), NotLoaded before json.load
    schema,     \* local schema (parsed schema), NotLoaded before json.load
    pc,         \* position in the call
    out,        \* the lines printed so far, in order
    result      \* "none" while running, then "true" | "false" | "raised"

vars == <<jfile, sfile, json_data, schema, pc, out, result>>

----------------------------------------------------------------------------
(* Bounds of the model.                                                    *)

\* longest field group (required_fields, at_least_one_of, ...) of a schema
MaxGroup == 2
\* longest allowed-value list of a field_values constraint
MaxAllowed == 1
\* most field-name entries (group entries plus field_values pairs) in the
\* schema of one validate_schema call
MaxEntries == 3

----------------------------------------------------------------------------
(* Parsed JSON values, as json.load builds them.                           *)

Null == [t |-> "null"]

Bool(b) == [t |-> "bool", b |-> b]

Num(n) == [t |-> "num", n |-> n]

Str(s) == [t |-> "str", s |-> s]

\* a JSON array: a Python list
List(items) == [t |-> "list", items |-> items]

\* a JSON object: a Python dict, a function from its keys to their values
Dict(m) == [t |-> "dict", m |-> m]

EmptyMap == [k \in {} |-> Null]

\* the placeholder of a local that is not bound yet
NotLoaded == [t |-> "unbound"]

\* Python truth value of a parsed JSON value: None, False, 0, "", [] and {}
\* are falsy
Truthy(v) ==
    CASE v.t = "null" -> FALSE
      [] v.t = "bool" -> v.b
      [] v.t = "num"  -> v.n # 0
      [] v.t = "str"  -> v.s # ""
      [] v.t = "list" -> Len(v.items) # 0
      [] v.t = "dict" -> DOMAIN v.m # {}
      [] OTHER        -> FALSE

IsNumeric(v) == v.t \in {"bool", "num"}

\* the number a bool or a number compares as (bool is a subclass of int)
NumOf(v) == IF v.t = "bool" THEN (IF v.b THEN 1 ELSE 0) ELSE v.n

\* Python ==  on parsed JSON values: True == 1 and False == 0
PyEq(v, w) ==
    IF IsNumeric(v) /\ IsNumeric(w) THEN NumOf(v) = NumOf(w) ELSE v = w

\* `x in lst` for a Python list lst
InList(x, lst) == \E i \in 1..Len(lst) : PyEq(lst[i], x)

\* `field in json_data` for a dict
HasKey(d, field) == field \in DOMAIN d.m

\* dict.get(field): the value, or None when the key is absent
Get(d, field) == IF field \in DOMAIN d.m THEN d.m[field] ELSE Null

\* a JSON object that the code iterates with .items(): its (key, value) pairs
\* in mapping order, keys distinct
Items(pairs) == [t |-> "dict", pairs |-> pairs]

----------------------------------------------------------------------------
(* Outcome of a call: a returned boolean or a raised exception, with the   *)
(* lines it printed.                                                       *)

Return(b, printed) == [kind |-> "return", value |-> b, out |-> printed]

Raise(exc) == [kind |-> "raise", exc |-> exc, out |-> << >>]

\* print(f"Required field '{field}' is missing.")
MsgRequired(field) == [msg |-> "required_field_missing", field |-> field]

\* print(f"At least one of {field_group} should be present.")
MsgAtLeastOne(group) == [msg |-> "at_least_one_of", group |-> group]

\* print(f"Either one of {field_group} should be present.")
MsgEither(group) == [msg |-> "either_one_of", group |-> group]

\* print(f"Mutually exclusive fields {field_group} should not be present together.")
MsgMutex(group) == [msg |-> "mutually_exclusive", group |-> group]

\* print(f"Field '{field}' should have one of the values {allowed_values}.")
MsgFieldValue(field, allowed) ==
    [msg |-> "field_value", field |-> field, allowed |-> allowed]

\* print(f"File not found: {e}")
MsgFileNotFound == [msg |-> "file_not_found"]

\* print(f"JSON decoding error: {e}")
MsgJsonDecode == [msg |-> "json_decoding_error"]

\* print(f"An unexpected error occurred: {e}")
MsgUnexpected(exc) == [msg |-> "unexpected_error", exc |-> exc]

----------------------------------------------------------------------------
(* The five rule checkers.                                                 *)

\* schema.get(key, default); only a dict has .get
SchemaGet(sch, key, default) ==
    IF key \in DOMAIN sch.m THEN sch.m[key] ELSE default

\* `field not in json_data` raises TypeError on None, a bool or a number
\* (a str container, a substring test, is not among the inputs drawn)
IsContainer(c) == c.t \in {"dict", "list"}

\* Contains by truth value: a key with a falsy value counts as missing
ContainsTruthy(c, field) ==
    IF c.t = "dict" THEN Truthy(Get(c, field.s)) ELSE InList(field, c.items)

\* `field in json_data`: key membership for a dict, element membership for a
\* list
Contains(c, field) ==
    IF c.t = "dict" THEN HasKey(c, field.s) ELSE InList(field, c.items)

\* the loop of validate_required_fields from entry i of the group on
RECURSIVE RequiredLoop(_, _, _)
RequiredLoop(doc, group, i) ==
    IF i > Len(group) THEN Return(TRUE, << >>)
    ELSE IF ~IsContainer(doc) THEN Raise("TypeError")
    ELSE IF ~Contains(doc, group[i])
         THEN Return(FALSE, <<MsgRequired(group[i].s)>>)
    ELSE RequiredLoop(doc, group, i + 1)

validate_required_fields(doc, sch) ==
    IF sch.t # "dict" THEN Raise("AttributeError")
    ELSE LET group == SchemaGet(sch, "required_fields", List(<< >>))
         IN  IF group.t # "list" THEN Raise("TypeError")
             ELSE RequiredLoop(doc, group.items, 1)

\* PresentFields by key existence: [field for field in field_group if field
\* in json_data]
PresentFieldsByKey(doc, group) ==
    SelectSeq(group, LAMBDA field : HasKey(doc, field.s))

\* [field for field in field_group if json_data.get(field)]
PresentFields(doc, group) ==
    SelectSeq(group, LAMBDA field : Truthy(Get(doc, field.s)))

\* the comprehension raises TypeError when field_group is not iterable and
\* AttributeError when it has an entry and json_data has no .get
ComprehensionError(doc, group) ==
    IF group.t # "list" THEN "TypeError"
    ELSE IF Len(group.items) > 0 /\ doc.t # "dict" THEN "AttributeError"
    ELSE "none"

validate_at_least_one_of(doc, sch) ==
    IF sch.t # "dict" THEN Raise("AttributeError")
    ELSE LET field_group == SchemaGet(sch, "at_least_one_of", List(<< >>))
             err == ComprehensionError(doc, field_group)
         IN  IF err # "none" THEN Raise(err)
             ELSE IF Len(PresentFields(doc, field_group.items)) = 0
                  THEN Return(FALSE, <<MsgAtLeastOne(field_group)>>)
             ELSE Return(TRUE, << >>)

\* validate_either_one_or_another requiring exactly one present field
validate_either_exactly_one(doc, sch) ==
    IF sch.t # "dict" THEN Raise("AttributeError")
    ELSE LET field_group == SchemaGet(sch, "either_one_or_another", List(<< >>))
             err == ComprehensionError(doc, field_group)
         IN  IF err # "none" THEN Raise(err)
             ELSE IF Len(PresentFields(doc, field_group.items)) # 1
                  THEN Return(FALSE, <<MsgEither(field_group)>>)
             ELSE Return(TRUE, << >>)

validate_either_one_or_another(doc, sch) ==
    IF sch.t # "dict" THEN Raise("AttributeError")
    ELSE LET field_group == SchemaGet(sch, "either_one_or_another", List(<< >>))
             err == ComprehensionError(doc, field_group)
         IN  IF err # "none" THEN Raise(err)
             ELSE IF Len(PresentFields(doc, field_group.items)) > 1
                  THEN Return(FALSE, <<MsgEither(field_group)>>)
             ELSE Return(TRUE, << >>)

\* validate_mutually_exclusive_fields rejecting only two or more present
\* fields
validate_mutex_at_most_one(doc, sch) ==
    IF sch.t # "dict" THEN Raise("AttributeError")
    ELSE LET field_group == SchemaGet(sch, "mutually_exclusive_fields", List(<< >>))
             err == ComprehensionError(doc, field_group)
         IN  IF err # "none" THEN Raise(err)
             ELSE IF Len(PresentFields(doc, field_group.items)) > 1
                  THEN Return(FALSE, <<MsgMutex(field_group)>>)
             ELSE Return(TRUE, << >>)

validate_mutually_exclusive_fields(doc, sch) ==
    IF sch.t # "dict" THEN Raise("AttributeError")
    ELSE LET field_group == SchemaGet(sch, "mutually_exclusive_fields", List(<< >>))
             err == ComprehensionError(doc, field_group)
         IN  IF err # "none" THEN Raise(err)
             ELSE IF Len(PresentFields(doc, field_group.items)) # 1
                  THEN Return(FALSE, <<MsgMutex(field_group)>>)
             ELSE Return(TRUE, << >>)

\* FieldValuesLoop constraining only the fields the document has
RECURSIVE FieldValuesLoopPresentOnly(_, _, _)
FieldValuesLoopPresentOnly(doc, pairs, i) ==
    IF i > Len(pairs) THEN Return(TRUE, << >>)
    ELSE IF doc.t # "dict" THEN Raise("AttributeError")
    ELSE IF pairs[i][2].t # "list" THEN Raise("TypeError")
    ELSE IF /\ HasKey(doc, pairs[i][1])
            /\ ~InList(Get(doc, pairs[i][1]), pairs[i][2].items)
         THEN Return(FALSE, <<MsgFieldValue(pairs[i][1], pairs[i][2])>>)
    ELSE FieldValuesLoopPresentOnly(doc, pairs, i + 1)

\* the loop of validate_field_values from pair i of the mapping on; a pair
\* is <<field, allowed_values>>
RECURSIVE FieldValuesLoop(_, _, _)
FieldValuesLoop(doc, pairs, i) ==
    IF i > Len(pairs) THEN Return(TRUE, << >>)
    ELSE IF doc.t # "dict" THEN Raise("AttributeError")
    ELSE IF pairs[i][2].t # "list" THEN Raise("TypeError")
    ELSE IF ~InList(Get(doc, pairs[i][1]), pairs[i][2].items)
         THEN Return(FALSE, <<MsgFieldValue(pairs[i][1], pairs[i][2])>>)
    ELSE FieldValuesLoop(doc, pairs, i + 1)

validate_field_values(doc, sch) ==
    IF sch.t # "dict" THEN Raise("AttributeError")
    ELSE LET constraints == SchemaGet(sch, "field_values", Items(<< >>))
         IN  IF constraints.t # "dict" THEN Raise("AttributeError")
             ELSE FieldValuesLoop(doc, constraints.pairs, 1)

----------------------------------------------------------------------------
(* validate_schema: the try block and its three except clauses.            *)

\* Handler without the last clause, `except Exception`
HandlerNoCatchAll(exc) ==
    CASE exc = "FileNotFoundError" -> [caught |-> TRUE, line |-> MsgFileNotFound]
      [] exc = "JSONDecodeError"   -> [caught |-> TRUE, line |-> MsgJsonDecode]
      [] OTHER                     -> [caught |-> FALSE, line |-> MsgUnexpected(exc)]

\* the except clause that catches exc, and the line it prints: the last
\* clause, `except Exception`, catches whatever the first two do not
Handler(exc) ==
    CASE exc = "FileNotFoundError" -> [caught |-> TRUE, line |-> MsgFileNotFound]
      [] exc = "JSONDecodeError"   -> [caught |-> TRUE, line |-> MsgJsonDecode]
      [] OTHER                     -> [caught |-> TRUE, line |-> MsgUnexpected(exc)]

\* an exception raised inside the try block: the clause that catches it
\* prints and returns False; an uncaught one leaves the call
Except(exc) ==
    /\ IF Handler(exc).caught
       THEN out' = Append(out, Handler(exc).line) /\ result' = "false"
       ELSE out' = out /\ result' = "raised"
    /\ pc' = "done"

\* open(path, 'r') on a file of the given status
OpenError(file) ==
    CASE file.status = "missing"    -> "FileNotFoundError"
      [] file.status = "unreadable" -> "PermissionError"
      [] OTHER                      -> "none"

\* open(json_file, 'r') as jfile
OpenJson ==
    /\ pc = "open_json"
    /\ IF OpenError(jfile) # "none"
       THEN Except(OpenError(jfile))
       ELSE pc' = "open_schema" /\ UNCHANGED <<out, result>>
    /\ UNCHANGED <<jfile, sfile, json_data, schema>>

\* open(schema_file, 'r') as sfile
OpenSchema ==
    /\ pc = "open_schema"
    /\ IF OpenError(sfile) # "none"
       THEN Except(OpenError(sfile))
       ELSE pc' = "load_json" /\ UNCHANGED <<out, result>>
    /\ UNCHANGED <<jfile, sfile, json_data, schema>>

\* json_data = json.load(jfile)
LoadJson ==
    /\ pc = "load_json"
    /\ IF jfile.status = "malformed"
       THEN Except("JSONDecodeError") /\ UNCHANGED json_data
       ELSE /\ json_data' = jfile.data
            /\ pc' = "load_schema"
            /\ UNCHANGED <<out, result>>
    /\ UNCHANGED <<jfile, sfile, schema>>

\* schema = json.load(sfile)
LoadSchema ==
    /\ pc = "load_schema"
    /\ IF sfile.status = "malformed"
       THEN Except("JSONDecodeError") /\ UNCHANGED schema
       ELSE /\ schema' = sfile.data
            /\ pc' = "required_fields"
            /\ UNCHANGED <<out, result>>
    /\ UNCHANGED <<jfile, sfile, json_data>>

\* Check without the early return: a failed check prints and the call goes
\* on to the next statement
CheckNoEarlyReturn(at, r, next) ==
    /\ pc = at
    /\ IF r.kind = "raise" THEN Except(r.exc)
       ELSE out' = out \o r.out /\ pc' = next /\ UNCHANGED result
    /\ UNCHANGED <<jfile, sfile, json_data, schema>>

\* `if not JsonValidator.validate_x(json_data, schema): return False`, then
\* on to the statement at next
Check(at, r, next) ==
    /\ pc = at
    /\ IF r.kind = "raise" THEN Except(r.exc)
       ELSE IF ~r.value
            THEN out' = out \o r.out /\ result' = "false" /\ pc' = "done"
       ELSE out' = out \o r.out /\ pc' = next /\ UNCHANGED result
    /\ UNCHANGED <<jfile, sfile, json_data, schema>>

CheckRequired ==
    Check("required_fields", validate_required_fields(json_data, schema),
          "at_least_one_of")

CheckAtLeastOne ==
    Check("at_least_one_of", validate_at_least_one_of(json_data, schema),
          "either_one_or_another")

CheckEither ==
    Check("either_one_or_another",
          validate_either_one_or_another(json_data, schema),
          "mutually_exclusive_fields")

CheckMutex ==
    Check("mutually_exclusive_fields",
          validate_mutually_exclusive_fields(json_data, schema),
          "field_values")

CheckFieldValues ==
    Check("field_values", validate_field_values(json_data, schema),
          "return_true")

\* return True
ReturnTrue ==
    /\ pc = "return_true"
    /\ result' = "true"
    /\ pc' = "done"
    /\ UNCHANGED <<jfile, sfile, json_data, schema, out>>

----------------------------------------------------------------------------
(* A direct call of one checker (each is a public static method).          *)

Call(name, r) ==
    /\ pc = "call"
    /\ pc' = name
    /\ out' = out \o r.out
    /\ result' = IF r.kind = "raise" THEN "raised"
                 ELSE IF r.value THEN "true" ELSE "false"
    /\ UNCHANGED <<jfile, sfile, json_data, schema>>

CallRequired ==
    Call("required_fields", validate_required_fields(json_data, schema))

CallAtLeastOne ==
    Call("at_least_one_of", validate_at_least_one_of(json_data, schema))

CallEither ==
    Call("either_one_or_another",
         validate_either_one_or_another(json_data, schema))

CallMutex ==
    Call("mutually_exclusive_fields",
         validate_mutually_exclusive_fields(json_data, schema))

CallFieldValues ==
    Call("field_values", validate_field_values(json_data, schema))

----------------------------------------------------------------------------
(* The inputs drawn.                                                       *)

Fields == {"a", "b"}

\* the values a document field takes in a direct call of a checker: every
\* falsy kind and three truthy ones
DocValues ==
    {Null, Bool(FALSE), Num(0), Str(""), List(<< >>),
     Bool(TRUE), Num(1), Str("A")}

\* the values a document field takes in a validate_schema call
FileDocValues == {Null, Num(1), Str("A")}

\* the values an allowed-value list is made of
AllowedValues == {Null, Num(1), Str("A")}

SeqsUpTo(S, n) == UNION {[1..k -> S] : k \in 0..n}

DictsOver(V) == {Dict(m) : m \in UNION {[K -> V] : K \in SUBSET Fields}}

\* field groups: lists of field names, repeats included
Groups == {List(q) : q \in SeqsUpTo({Str(f) : f \in Fields}, MaxGroup)}

AllowedLists == {List(q) : q \in SeqsUpTo(AllowedValues, MaxAllowed)}

\* sequences of (field, allowed list) pairs without a repeated field
PairSeqs ==
    {p \in SeqsUpTo(Fields \X AllowedLists, Cardinality(Fields)) :
        \A i, j \in 1..Len(p) : p[i][1] = p[j][1] => i = j}

Constraints == {Items(p) : p \in PairSeqs}

GroupKeys ==
    <<"required_fields", "at_least_one_of", "either_one_or_another",
      "mutually_exclusive_fields">>

SchemaKeys == GroupKeys \o <<"field_values">>

\* the values key number i of a schema takes; Null is a value of the wrong
\* shape
KeyValues(i) ==
    IF i <= Len(GroupKeys) THEN Groups \cup {Null}
                           ELSE Constraints \cup {Null}

RECURSIVE SumLens(_, _)
SumLens(pairs, i) ==
    IF i > Len(pairs) THEN 0
    ELSE Len(pairs[i][2].items) + SumLens(pairs, i + 1)

\* the number of field names and allowed values a key's value holds; a
\* value of the wrong shape counts as one
Entries(v) ==
    CASE v.t = "list" -> Len(v.items)
      [] v.t = "dict" -> Len(v.pairs) + SumLens(v.pairs, 1)
      [] OTHER        -> 1

\* the key -> value maps over keys i.. of SchemaKeys holding at most budget
\* entries; a key may be absent
RECURSIVE SchemaMaps(_, _)
SchemaMaps(i, budget) ==
    IF i > Len(SchemaKeys) THEN {EmptyMap}
    ELSE SchemaMaps(i + 1, budget) \cup
         UNION {LET rest == SchemaMaps(i + 1, budget - k)
                IN  {(SchemaKeys[i] :> v) @@ m :
                        v \in {w \in KeyValues(i) : Entries(w) = k},
                        m \in rest} :
                k \in 0..budget}

\* schema files of a validate_schema call
FileSchemas ==
    {Dict(m) : m \in SchemaMaps(1, MaxEntries)} \cup {List(<< >>), Null}

\* document files of a validate_schema call
FileDocs ==
    DictsOver(FileDocValues) \cup {List(<< >>), List(<<Str("a")>>), Null}

\* schemas of a direct call: at most one key, of the right shape
UnitSchemas ==
    {Dict(EmptyMap)}
    \cup {Dict(GroupKeys[i] :> g) : i \in 1..Len(GroupKeys), g \in Groups}
    \cup {Dict("field_values" :> c) : c \in Constraints}

UnitDocs == DictsOver(DocValues)

NoFile == [status |-> "none", data |-> Null]

Files(contents) ==
    {[status |-> "ok", data |-> d] : d \in contents}
    \cup {[status |-> st, data |-> Null] :
            st \in {"missing", "unreadable", "malformed"}}

----------------------------------------------------------------------------
(* One call of validate_schema(json_file, schema_file).                    *)

Init ==
    /\ jfile \in Files(FileDocs)
    /\ sfile \in Files(FileSchemas)
    /\ json_data = NotLoaded
    /\ schema = NotLoaded
    /\ pc = "open_json"
    /\ out = << >>
    /\ result = "none"

Next ==
    \/ OpenJson
    \/ OpenSchema
    \/ LoadJson
    \/ LoadSchema
    \/ CheckRequired
    \/ CheckAtLeastOne
    \/ CheckEither
    \/ CheckMutex
    \/ CheckFieldValues
    \/ ReturnTrue

Spec == Init /\ [][Next]_vars

(* One direct call of a checker on parsed inputs.                          *)

UnitInit ==
    /\ jfile = NoFile
    /\ sfile = NoFile
    /\ json_data \in UnitDocs
    /\ schema \in UnitSchemas
    /\ pc = "call"
    /\ out = << >>
    /\ result = "none"

UnitNext ==
    \/ CallRequired
    \/ CallAtLeastOne
    \/ CallEither
    \/ CallMutex
    \/ CallFieldValues

UnitSpec == UnitInit /\ [][UnitNext]_vars

----------------------------------------------------------------------------
(* Vocabulary of the properties, stated without the checkers' code.        *)

\* both files were parsed
Loaded == json_data # NotLoaded /\ schema # NotLoaded

\* the falsy values by enumeration: null, false, zero, empty string, empty
\* collection
IsFalsyValue(v) ==
    v \in {Null, Bool(FALSE), Num(0), Str(""), List(<< >>), Dict(EmptyMap)}

\* the group under a key of the schema; an absent key is the empty group
GroupOf(sch, key) ==
    IF key \in DOMAIN sch.m THEN sch.m[key].items ELSE << >>

\* the field_values pairs of the schema; none when the key is absent
PairsOf(sch) ==
    IF "field_values" \in DOMAIN sch.m THEN sch.m["field_values"].pairs
    ELSE << >>

\* the entries of a group that are present-and-truthy in the document
TruthyEntries(doc, group) ==
    {i \in 1..Len(group) :
        /\ group[i].s \in DOMAIN doc.m
        /\ ~IsFalsyValue(doc.m[group[i].s])}

\* the entries of a group whose field is no key of the document
MissingEntries(doc, group) ==
    {i \in 1..Len(group) : group[i].s \notin DOMAIN doc.m}

\* the pairs whose field's value, null when the key is absent, is not in
\* the pair's allowed list (membership as Python's `in`: by ==)
FailingPairs(doc, pairs) ==
    {i \in 1..Len(pairs) :
        LET v == IF pairs[i][1] \in DOMAIN doc.m THEN doc.m[pairs[i][1]]
                 ELSE Null
        IN  \A j \in 1..Len(pairs[i][2].items) :
                ~PyEq(pairs[i][2].items[j], v)}

Min(S) == CHOOSE x \in S : \A y \in S : x <= y

\* the outcome of checker number k, in the order of the specification, on
\* the loaded inputs
Outcome(k) ==
    CASE k = 1 -> validate_required_fields(json_data, schema)
      [] k = 2 -> validate_at_least_one_of(json_data, schema)
      [] k = 3 -> validate_either_one_or_another(json_data, schema)
      [] k = 4 -> validate_mutually_exclusive_fields(json_data, schema)
      [] k = 5 -> validate_field_values(json_data, schema)

Passes(r) == r.kind = "return" /\ r.value

Violates(r) == r.kind = "return" /\ ~r.value

\* the number of the check validate_schema is at, 6 past the last one
Stage ==
    CASE pc = "required_fields"            -> 1
      [] pc = "at_least_one_of"            -> 2
      [] pc = "either_one_or_another"      -> 3
      [] pc = "mutually_exclusive_fields"  -> 4
      [] pc = "field_values"               -> 5
      [] pc = "return_true"                -> 6
      [] OTHER                             -> 0

----------------------------------------------------------------------------
(* C1: validate_schema runs the five checks in the order required_fields,  *)
(* at_least_one_of, either_one_or_another, mutually_exclusive_fields,      *)
(* field_values and stops at the first that fails: a check is reached only *)
(* after all earlier ones passed without printing; the call returns true   *)
(* exactly when all five pass; and when a check reports a violation after  *)
(* all earlier ones passed, the call returns false having printed that     *)
(* check's diagnostic and nothing else.                                    *)
C1_FixedOrderShortCircuit ==
    /\ Stage > 0 =>
         /\ out = << >>
         /\ result = "none"
         /\ \A k \in 1..(Stage - 1) : Passes(Outcome(k))
    /\ (pc = "done" /\ Loaded) =>
         /\ result = "true" <=> \A k \in 1..5 : Passes(Outcome(k))
         /\ \A k \in 1..5 :
              (Violates(Outcome(k)) /\ \A j \in 1..(k - 1) : Passes(Outcome(j)))
                 => result = "false" /\ out = Outcome(k).out

\* a finished call on a document that violates both required_fields and
\* field_values: the one line printed is the missing required field
C1_Witness ==
    /\ pc = "done" /\ Loaded
    /\ json_data.t = "dict" /\ schema.t = "dict"
    /\ Violates(Outcome(1)) /\ Violates(Outcome(5))
    /\ result = "false"
    /\ Len(out) = 1 /\ out[1].msg = "required_field_missing"

----------------------------------------------------------------------------
(* C2: for each of the five schema keys, when the key is absent from the   *)
(* schema the corresponding checker returns true for every document.       *)
C2_AbsentKeyPasses ==
    (pc \in {SchemaKeys[i] : i \in 1..Len(SchemaKeys)} /\ pc \notin DOMAIN schema.m)
        => result = "true"

----------------------------------------------------------------------------
(* C3: for a schema whose only keys are required_fields and field_values,  *)
(* validate_schema returns true for every document that has every required *)
(* key and whose value for every constrained field is in that field's      *)
(* allowed list.                                                           *)
C3_RequiredAndValuesOnly ==
    ( /\ pc = "done" /\ Loaded
      /\ json_data.t = "dict" /\ schema.t = "dict"
      /\ DOMAIN schema.m = {"required_fields", "field_values"}
      /\ schema.m["required_fields"].t = "list"
      /\ schema.m["field_values"].t = "dict"
      /\ MissingEntries(json_data, GroupOf(schema, "required_fields")) = {}
      /\ FailingPairs(json_data, PairsOf(schema)) = {} )
        => result = "true"

----------------------------------------------------------------------------
(* C4: validate_required_fields checks key existence only: it returns      *)
(* false exactly when some name of the group is no key of the document,    *)
(* whatever the values of the keys (null, false, zero, empty string and    *)
(* empty collection included); the field it reports is the first missing   *)
(* one in group order; with an empty group it returns true.                *)
C4_RequiredKeyExistence ==
    pc = "required_fields" =>
        LET group == GroupOf(schema, "required_fields")
            missing == MissingEntries(json_data, group)
        IN  /\ result = "false" <=> missing # {}
            /\ result = "true" <=> missing = {}
            /\ missing # {} => out = <<MsgRequired(group[Min(missing)].s)>>
            /\ missing = {} => out = << >>
            /\ group = << >> => result = "true"

\* a required key whose value is falsy counts as present
C4_Witness ==
    /\ pc = "required_fields"
    /\ result = "true"
    /\ \E i \in 1..Len(GroupOf(schema, "required_fields")) :
          LET f == GroupOf(schema, "required_fields")[i].s
          IN  f \in DOMAIN json_data.m /\ IsFalsyValue(json_data.m[f])

----------------------------------------------------------------------------
(* C5: validate_at_least_one_of returns false exactly when no entry of the *)
(* group is a key of the document with a value other than the falsy ones   *)
(* (empty string, zero, empty collection, false, null); an empty group     *)
(* fails for every document.                                               *)
C5_AtLeastOneTruthy ==
    pc = "at_least_one_of" =>
        LET group == GroupOf(schema, "at_least_one_of")
        IN  /\ result = "false" <=> TruthyEntries(json_data, group) = {}
            /\ result = "true" <=> TruthyEntries(json_data, group) # {}
            /\ group = << >> => result = "false"

\* every field of the group is a key of the document, with a falsy value:
\* the check fails
C5_Witness ==
    /\ pc = "at_least_one_of"
    /\ result = "false"
    /\ LET group == GroupOf(schema, "at_least_one_of")
       IN  /\ Len(group) = 2 /\ group[1] # group[2]
           /\ \A i \in 1..Len(group) : group[i].s \in DOMAIN json_data.m

----------------------------------------------------------------------------
(* C6: validate_either_one_or_another returns false exactly when more than *)
(* one entry of the group is present-and-truthy in the document; zero and  *)
(* one such entries pass.                                                  *)
C6_EitherAtMostOne ==
    pc = "either_one_or_another" =>
        LET n == Cardinality(TruthyEntries(json_data,
                                           GroupOf(schema, "either_one_or_another")))
        IN  /\ result = "false" <=> n > 1
            /\ result = "true" <=> n <= 1

\* a group of two fields, none present-and-truthy: the check passes
C6_Witness ==
    /\ pc = "either_one_or_another"
    /\ result = "true"
    /\ Len(GroupOf(schema, "either_one_or_another")) = 2
    /\ TruthyEntries(json_data, GroupOf(schema, "either_one_or_another")) = {}

----------------------------------------------------------------------------
(* C7: validate_mutually_exclusive_fields returns true exactly when        *)
(* exactly one entry of the group is present-and-truthy in the document;   *)
(* zero and two or more fail.                                              *)
C7_MutexExactlyOne ==
    pc = "mutually_exclusive_fields" =>
        LET n == Cardinality(TruthyEntries(json_data,
                                           GroupOf(schema, "mutually_exclusive_fields")))
        IN  /\ result = "true" <=> n = 1
            /\ result = "false" <=> n # 1

\* a group of two fields, none present-and-truthy: the check fails
C7_Witness ==
    /\ pc = "mutually_exclusive_fields"
    /\ result = "false"
    /\ Len(GroupOf(schema, "mutually_exclusive_fields")) = 2
    /\ TruthyEntries(json_data, GroupOf(schema, "mutually_exclusive_fields")) = {}

----------------------------------------------------------------------------
(* C8: validate_field_values returns false exactly when, for some (field,  *)
(* allowed list) pair, the document's value for the field, null when the   *)
(* key is absent, is not in the allowed list; so a missing field fails     *)
(* unless the list holds null; the pair reported is the first failing one  *)
(* in mapping order.                                                       *)
C8_FieldValuesMembership ==
    pc = "field_values" =>
        LET pairs == PairsOf(schema)
            failing == FailingPairs(json_data, pairs)
        IN  /\ result = "false" <=> failing # {}
            /\ result = "true" <=> failing = {}
            /\ failing # {} =>
                 out = <<MsgFieldValue(pairs[Min(failing)][1],
                                       pairs[Min(failing)][2])>>
            /\ \A i \in 1..Len(pairs) :
                 pairs[i][1] \notin DOMAIN json_data.m =>
                    (i \in failing <=> ~InList(Null, pairs[i][2].items))

\* a constrained field the document lacks: the check fails, naming it
C8_Witness ==
    /\ pc = "field_values"
    /\ result = "false"
    /\ Len(out) = 1
    /\ out[1].field \notin DOMAIN json_data.m
    /\ Len(PairsOf(schema)) = 2
    /\ FailingPairs(json_data, PairsOf(schema)) = {2}

----------------------------------------------------------------------------
(* C9: validate_schema never raises.  A missing file ends the call with    *)
(* the file-not-found line, file content that is not JSON with the JSON    *)
(* decoding line, and any other error (an unreadable file, a document or   *)
(* schema of the wrong shape) with the unexpected-error line; each of      *)
(* these returns false, and every call ends with true or false.            *)
C9_NeverRaises ==
    /\ result # "raised"
    /\ pc = "done" \/ ENABLED Next
    /\ pc = "done" =>
         LET opened == jfile.status \in {"ok", "malformed"}
                       /\ sfile.status \in {"ok", "malformed"}
             raising == {k \in 1..5 : Outcome(k).kind = "raise"}
             stopping == {k \in 1..5 : ~Passes(Outcome(k))}
         IN  /\ result \in {"true", "false"}
             /\ (jfile.status = "missing"
                   \/ (jfile.status \in {"ok", "malformed"} /\ sfile.status = "missing"))
                  => result = "false" /\ out = <<MsgFileNotFound>>
             /\ (jfile.status = "unreadable"
                   \/ (jfile.status \in {"ok", "malformed"} /\ sfile.status = "unreadable"))
                  => /\ result = "false"
                     /\ Len(out) = 1 /\ out[1].msg = "unexpected_error"
             /\ (opened /\ ~Loaded)
                  => result = "false" /\ out = <<MsgJsonDecode>>
             /\ (Loaded /\ raising # {} /\ Min(stopping) \in raising)
                  => /\ result = "false"
                     /\ Len(out) = 1 /\ out[1].msg = "unexpected_error"

\* both files parsed, the first check passed and a later one raised: the
\* call returned false with the unexpected-error line
C9_Witness ==
    /\ pc = "done" /\ Loaded
    /\ Passes(Outcome(1))
    /\ Outcome(2).kind = "raise"
    /\ result = "false"
    /\ out = <<MsgUnexpected(Outcome(2).exc)>>

----------------------------------------------------------------------------
(* C10: for every document and every group g,                              *)
(* validate_mutually_exclusive_fields on g returns true exactly when       *)
(* validate_at_least_one_of on g and validate_either_one_or_another on g   *)
(* both return true; and whenever validate_schema returns true, the        *)
(* schema's mutually_exclusive_fields group has exactly one                *)
(* present-and-truthy entry and its at_least_one_of group at least one.    *)
C10_MutexIsAtLeastOneAndEither ==
    (pc = "done" /\ Loaded /\ json_data.t = "dict") =>
        /\ \A g \in Groups :
              Passes(validate_mutually_exclusive_fields(
                        json_data, Dict("mutually_exclusive_fields" :> g)))
              <=> /\ Passes(validate_at_least_one_of(
                               json_data, Dict("at_least_one_of" :> g)))
                  /\ Passes(validate_either_one_or_another(
                               json_data, Dict("either_one_or_another" :> g)))
        /\ result = "true" =>
              /\ Cardinality(TruthyEntries(json_data,
                    GroupOf(schema, "mutually_exclusive_fields"))) = 1
              /\ TruthyEntries(json_data, GroupOf(schema, "at_least_one_of")) # {}

\* a call that returned true on a schema whose mutually_exclusive_fields
\* group has two entries
C10_Witness ==
    /\ pc = "done" /\ Loaded
    /\ result = "true"
    /\ Len(GroupOf(schema, "mutually_exclusive_fields")) = 2

====
